---- MODULE Spec2Model ----
(***************************************************************************)
(* A model of setup-models.py: the llmfit locator, the recommender         *)
(* invoker, the opencode.json merger, the run.sh patcher and the driver.   *)
(*                                                                         *)
(* Strings the code takes apart (model names, script lines) are sequences  *)
(* of characters or tokens; an optional value (a missing dict key, None)   *)
(* is the empty sequence and a present one a one-element sequence.  A file *)
(* on disk is its parsed content together with what parsing forgets (the   *)
(* JSON layout, a line's terminator), so that reading and writing are not  *)
(* the identity.                                                           *)
(***************************************************************************)
EXTENDS Integers, Sequences, FiniteSets, TLC

\* Bounds of the model.
MaxRecs == 2
MaxCalls == 2
MaxExt == 1

\* Constants of the program.
DefaultContextLength == 32768
MaxTokensCap == 8192
ExitFailure == 1
ExitSuccess == 0

None == <<>>
Some(x) == <<x>>
Get(opt, default) == IF opt = None THEN default ELSE opt[1]

Max(S) == CHOOSE x \in S : \A y \in S : y <= x
Min2(a, b) == IF a <= b THEN a ELSE b

----------------------------------------------------------------------------
\* Model names: strings as sequences of characters.
EmptyName == <<>>
NameM == <<"m">>
NameOrgM == <<"o", "/", "m">>
NameQ == <<"q", "/", "r", "/", "s">>

\* model_id.split('/')[-1]
Basename(s) ==
  LET slashes == {i \in 1..Len(s) : s[i] = "/"}
  IN  IF slashes = {} THEN s ELSE SubSeq(s, Max(slashes) + 1, Len(s))

\* f"{model_id.split('/')[-1]} (vLLM, {model.get('best_quant', 'auto')})"
DisplayName(model_id, model) ==
  Basename(model_id) \o <<" (vLLM, ">> \o Get(model.best_quant, <<"auto">>) \o <<")">>

\* model.get("context_length", 32768)
ContextWindow(model) == Get(model.context_length, DefaultContextLength)

\* Variant: the quotient rounded up.
MaxTokensCeil(context_window) == Min2(MaxTokensCap, (context_window + 3) \div 4)
\* min(8192, context_window // 4)
MaxTokens(context_window) == Min2(MaxTokensCap, context_window \div 4)

\* The entry the merge inserts for a recommendation.
NewEntry(model_id, model) ==
  [name |-> DisplayName(model_id, model),
   contextWindow |-> ContextWindow(model),
   maxTokens |-> MaxTokens(ContextWindow(model))]

\* `not best_model`: None and the empty string are both falsy.
Falsy(best) == best = None \/ best = Some(EmptyName)

----------------------------------------------------------------------------
\* What llmfit prints: the recommended model descriptors.
Descriptors ==
  { [name |-> Some(NameOrgM),  context_length |-> None,        best_quant |-> None],
    [name |-> Some(NameM),     context_length |-> Some(32768), best_quant |-> Some(<<"awq">>)],
    [name |-> Some(NameM),     context_length |-> Some(16000), best_quant |-> None],
    [name |-> Some(NameQ),     context_length |-> Some(7),     best_quant |-> None],
    [name |-> Some(EmptyName), context_length |-> Some(40001), best_quant |-> None],
    [name |-> Some(NameOrgM),  context_length |-> Some(-3),    best_quant |-> Some(<<"awq">>)],
    [name |-> None,            context_length |-> None,        best_quant |-> None] }

DescriptorLists == UNION {[1..n -> Descriptors] : n \in 0..MaxRecs}

\* The parsed output of `llmfit recommend --json`: a JSON object with or
\* without the key "models", or some other JSON value.
Recommendations ==
  { [isDict |-> FALSE, hasModels |-> FALSE, models |-> <<>>],
    [isDict |-> TRUE,  hasModels |-> FALSE, models |-> <<>>] }
  \cup { [isDict |-> TRUE, hasModels |-> TRUE, models |-> l] : l \in DescriptorLists }

\* recommendations.get("models", [])
RecModels(recs) == IF recs.hasModels THEN recs.models ELSE <<>>

----------------------------------------------------------------------------
\* opencode.json.  provider.vllm.models is an ordered mapping: a sequence of
\* (id, val) pairs with distinct ids.
CustomM == [id |-> NameM,
            val |-> [name |-> <<"custom">>, contextWindow |-> 4096, maxTokens |-> 1024]]
CustomOrgM == [id |-> NameOrgM,
               val |-> [name |-> <<"mine">>, contextWindow |-> 100000, maxTokens |-> 50000]]

NoDoc == [hasProvider |-> FALSE, hasVllm |-> FALSE, hasModels |-> FALSE,
          models |-> <<>>, theme |-> "none", baseURL |-> "none"]

\* A document: whether provider, provider.vllm and provider.vllm.models are
\* there, the models, and two keys next to them: theme at the top level and
\* baseURL in provider.vllm.
Doc(p, v, m, models, theme, url) ==
  [hasProvider |-> p, hasVllm |-> v, hasModels |-> m, models |-> models,
   theme |-> theme, baseURL |-> url]

Docs ==
  { Doc(FALSE, FALSE, FALSE, <<>>, "dark", "none"),
    Doc(TRUE,  FALSE, FALSE, <<>>, "dark", "none"),
    Doc(TRUE,  TRUE,  FALSE, <<>>, "light", "http://localhost:8000/v1"),
    Doc(TRUE,  TRUE,  TRUE,  <<>>, "dark", "http://localhost:8000/v1"),
    Doc(TRUE,  TRUE,  TRUE,  <<CustomM>>, "dark", "http://gpu:8000/v1"),
    Doc(TRUE,  TRUE,  TRUE,  <<CustomOrgM, CustomM>>, "light", "http://localhost:8000/v1") }

\* A file on disk: absent, not JSON, or a JSON document in some layout
\* ("indent2" is what json.dump(config, f, indent=2) produces).
AbsentFile == [kind |-> "absent", fmt |-> "none", doc |-> NoDoc]
MalformedFile == [kind |-> "malformed", fmt |-> "none", doc |-> NoDoc]
ConfigFiles ==
  {AbsentFile, MalformedFile}
  \cup { [kind |-> "doc", fmt |-> "other", doc |-> d] : d \in Docs }
  \cup { [kind |-> "doc", fmt |-> "indent2", doc |-> d] : d \in {e \in Docs : e.models = <<CustomM>>} }

\* json.load(f)
Load(file) == file.doc
\* json.dump(config, f, indent=2)
Dump(doc) == [kind |-> "doc", fmt |-> "indent2", doc |-> doc]

Keys(models) == {models[i].id : i \in 1..Len(models)}
HasKey(models, model_id) == model_id \in Keys(models)
Lookup(models, model_id) ==
  (CHOOSE i \in 1..Len(models) : models[i].id = model_id)

\* "provider" not in config or "vllm" not in config["provider"]
\* Variant: no check of the document.
ValidConfigLax(doc) == TRUE
ValidConfig(doc) == doc.hasProvider /\ doc.hasVllm

\* if "models" not in config["provider"]["vllm"]: ... = {}
EnsureModels(doc) ==
  [doc EXCEPT !.hasModels = TRUE,
              !.models = IF doc.hasModels THEN doc.models ELSE <<>>]

\* Variants: an existing id is overwritten; the entry is added unconditionally.
InsertOverwrite(models, model_id, entry) ==
  IF HasKey(models, model_id)
  THEN [models EXCEPT ![Lookup(models, model_id)] = [id |-> model_id, val |-> entry]]
  ELSE Append(models, [id |-> model_id, val |-> entry])
InsertAlways(models, model_id, entry) == Append(models, [id |-> model_id, val |-> entry])
\* if model_id not in models: models[model_id] = {...}
InsertIfAbsent(models, model_id, entry) ==
  IF HasKey(models, model_id) THEN models
  ELSE Append(models, [id |-> model_id, val |-> entry])

\* if not best_model: best_model = model["name"]
NextBest(best, model_name) == IF Falsy(best) THEN Some(model_name) ELSE best

\* The for loop of update_opencode_json over the remaining recommendations.
\* A descriptor without "name" raises KeyError: the loop stops there.
RECURSIVE MergeLoop(_, _, _, _)
MergeLoop(models, rest, best, count) ==
  IF rest = <<>>
  THEN [models |-> models, best_model |-> best, updated_count |-> count, crashed |-> FALSE]
  ELSE LET model == Head(rest) IN
       IF model.name = None
       THEN [models |-> models, best_model |-> best, updated_count |-> count, crashed |-> TRUE]
       ELSE LET model_id == model.name[1]
                models2 == InsertIfAbsent(models, model_id, NewEntry(model_id, model))
            IN  MergeLoop(models2, Tail(rest), NextBest(best, model_id),
                          IF HasKey(models, model_id) THEN count ELSE count + 1)

\* Lines 52-75 on the loaded document.
Merge(doc, recs) ==
  LET r == MergeLoop(EnsureModels(doc).models, RecModels(recs), None, 0)
  IN  [doc |-> [EnsureModels(doc) EXCEPT !.models = r.models],
       best_model |-> r.best_model, updated_count |-> r.updated_count,
       crashed |-> r.crashed \/ ~recs.isDict]

----------------------------------------------------------------------------
\* The locator.
BinaryName(plat) == IF plat = "win32" THEN "llmfit.exe" ELSE "llmfit"
RelativePath(plat) == IF plat = "win32" THEN ".\\llmfit.exe" ELSE "./llmfit"

CwdFileSets == { {}, {"llmfit"}, {"llmfit.exe"} }
WhichResults == { None, Some("/opt/bin/llmfit") }

\* Variant: the search path is asked first.
find_llmfit_path_first(plat, files, which) ==
  IF which # None THEN which
  ELSE IF BinaryName(plat) \in files THEN Some(RelativePath(plat))
  ELSE None
\* What find_llmfit returns; None is the fall through to sys.exit(1).
find_llmfit_result(plat, files, which) ==
  IF BinaryName(plat) \in files THEN Some(RelativePath(plat))
  ELSE IF which # None THEN which
  ELSE None

----------------------------------------------------------------------------
\* run.sh: lines of tokens, each with its terminator on disk ("" for a last
\* line without one).  "--model " is the flag followed by a space.
Whitespace == {" ", "\t"}
Line(text, eol) == [text |-> text, eol |-> eol]

ScriptText ==
  << <<"vllm", " ", "serve", " ", "\\">>,
     <<" ", " ", "--model ", "old", " ", "\\">>,
     <<" ", " ", "--port", " ", "8000">> >>

Scripts ==
  { [i \in 1..3 |-> Line(ScriptText[i], "\n")],
    [i \in 1..3 |-> Line(ScriptText[i], "\r\n")],
    << Line(<<"\t", "--model ", "a", " ", "\\">>, "\n"), Line(<<" ", "--model ", "b">>, "")>>,
    << Line(<<"vllm", " ", "--model ", "old">>, "") >>,
    << Line(<<"vllm">>, "\n"), Line(<<" ", "--model=x">>, "\r\n") >> }

AbsentScript == [exists |-> FALSE, lines |-> <<>>]
ScriptFiles == {AbsentScript} \cup { [exists |-> TRUE, lines |-> l] : l \in Scripts }

LineSep(plat) == IF plat = "win32" THEN "\r\n" ELSE "\n"

\* f.readlines() in text mode: every terminator reads as "\n".
ReadLines(file) ==
  [i \in 1..Len(file.lines) |->
     Line(file.lines[i].text, IF file.lines[i].eol = "" THEN "" ELSE "\n")]

\* f.writelines(lines) in text mode: every "\n" is written as os.linesep.
WriteLines(lines, plat) ==
  [exists |-> TRUE,
   lines |-> [i \in 1..Len(lines) |->
                Line(lines[i].text, IF lines[i].eol = "\n" THEN LineSep(plat) ELSE lines[i].eol)]]

\* "--model " in line
HasFlag(line) == \E k \in 1..Len(line.text) : line.text[k] = "--model "

\* line[:len(line) - len(line.lstrip())]
Indent(line) ==
  LET n == IF \A k \in 1..Len(line.text) : line.text[k] \in Whitespace
           THEN Len(line.text)
           ELSE (CHOOSE k \in 1..Len(line.text) :
                   /\ line.text[k] \notin Whitespace
                   /\ \A j \in 1..(k - 1) : line.text[j] \in Whitespace) - 1
  IN  SubSeq(line.text, 1, n)

\* f"{indent}--model {best_model} \\\n"
FlagLine(indent, name) == Line(indent \o <<"--model ">> \o name \o <<" ", "\\">>, "\n")

\* The loop of update_run_sh: the first line with the flag is replaced.
PatchLines(lines, name) ==
  [i \in 1..Len(lines) |->
     IF HasFlag(lines[i]) /\ \A j \in 1..(i - 1) : ~HasFlag(lines[j])
     THEN FlagLine(Indent(lines[i]), name) ELSE lines[i]]

\* The file update_run_sh leaves for an argument and a file on disk.
PatchedScript(best, file, plat) ==
  IF Falsy(best) \/ ~file.exists THEN file
  ELSE IF \E i \in 1..Len(file.lines) : HasFlag(ReadLines(file)[i])
       THEN WriteLines(PatchLines(ReadLines(file), best[1]), plat)
       ELSE file

BestModels == {None, Some(EmptyName), Some(NameM), Some(NameOrgM)}

----------------------------------------------------------------------------
VARIABLES
  platform,         \* sys.platform
  cwd_files,        \* which llmfit binaries the working directory holds
  which_result,     \* shutil.which("llmfit")
  config,           \* opencode.json on disk
  run_sh,           \* run.sh on disk
  caller,           \* "main": the script is run; "merge", "patch": a function is called
  pc,               \* where the process is
  status,           \* the exit status, None while the process runs
  fatal,            \* why the process stopped
  binary_path,      \* main's local
  recommendations,  \* the argument of update_opencode_json
  cfg,              \* update_opencode_json's local config
  ret,              \* what the last update_opencode_json returned
  updated_count,    \* its updated_count
  steps,            \* the functions called so far, in order
  before,           \* opencode.json as update_opencode_json found it
  reads,            \* times the process opened opencode.json for reading
  writes,           \* times the process wrote opencode.json
  ext,              \* writes of opencode.json by someone else
  ext_file,         \* what someone else last wrote there
  after,            \* opencode.json as each completed merge left it
  run_sh_before,    \* run.sh as the last update_run_sh found it
  run_sh_arg,       \* the argument of the last update_run_sh
  patches           \* completed calls of update_run_sh

vars == <<platform, cwd_files, which_result, config, run_sh, caller, pc, status,
          fatal, binary_path, recommendations, cfg, ret, updated_count, steps,
          before, reads, writes, ext, ext_file, after, run_sh_before, run_sh_arg, patches>>

env == <<platform, cwd_files, which_result>>
mergeLocals == <<cfg, ret, updated_count, before, reads, writes, after>>
patchVars == <<run_sh, run_sh_before, run_sh_arg, patches>>

Platforms == {"win32", "linux"}

InitLocals ==
  /\ status = None
  /\ fatal = "none"
  /\ binary_path = None
  /\ recommendations = None
  /\ cfg = None
  /\ ret = None
  /\ updated_count = 0
  /\ steps = <<>>
  /\ before = AbsentFile
  /\ reads = 0
  /\ writes = 0
  /\ ext = 0
  /\ ext_file = None
  /\ after = <<>>
  /\ run_sh_before = AbsentScript
  /\ run_sh_arg = None
  /\ patches = 0

\* python setup-models.py: main() is about to run.
InitMain ==
  /\ caller = "main"
  /\ pc = "find"
  /\ platform \in Platforms
  /\ cwd_files \in CwdFileSets
  /\ which_result \in WhichResults
  /\ config \in ConfigFiles
  /\ run_sh = [exists |-> TRUE, lines |-> [i \in 1..3 |-> Line(ScriptText[i], "\n")]]

\* update_opencode_json is called on its own.
InitMerge ==
  /\ caller = "merge"
  /\ pc = "idle"
  /\ platform = "linux"
  /\ cwd_files = {}
  /\ which_result = None
  /\ config \in ConfigFiles
  /\ run_sh = AbsentScript

\* update_run_sh is called on its own.
InitPatch ==
  /\ caller = "patch"
  /\ pc = "idle"
  /\ platform \in Platforms
  /\ cwd_files = {}
  /\ which_result = None
  /\ config = AbsentFile
  /\ run_sh \in ScriptFiles

Init == InitLocals /\ (InitMain \/ InitMerge \/ InitPatch)

\* sys.exit(1), or an exception nobody catches: the process ends with status 1.
Exit(reason) ==
  /\ pc' = "exited"
  /\ status' = Some(ExitFailure)
  /\ fatal' = reason

----------------------------------------------------------------------------
\* Variant: main goes on when nothing was found.
find_llmfit_no_exit ==
  /\ pc = "find"
  /\ steps' = Append(steps, "find_llmfit")
  /\ binary_path' = find_llmfit_result(platform, cwd_files, which_result)
  /\ pc' = "recommend"
  /\ UNCHANGED <<env, config, caller, status, fatal, recommendations, ext,
                 ext_file, mergeLocals, patchVars>>
\* binary_path = find_llmfit()
find_llmfit ==
  /\ pc = "find"
  /\ steps' = Append(steps, "find_llmfit")
  /\ LET r == find_llmfit_result(platform, cwd_files, which_result) IN
       IF r = None
       THEN Exit("tool_not_found") /\ UNCHANGED binary_path
       ELSE binary_path' = r /\ pc' = "recommend" /\ UNCHANGED <<status, fatal>>
  /\ UNCHANGED <<env, config, caller, recommendations, ext, ext_file,
                 mergeLocals, patchVars>>

\* What running the tool can come to: it cannot be started (OSError), it exits
\* non-zero, it prints something that is not JSON, or it prints a JSON value.
ToolOutcomes ==
  { [kind |-> k, value |-> [isDict |-> FALSE, hasModels |-> FALSE, models |-> <<>>]] :
      k \in {"oserror", "nonzero", "notjson"} }
  \cup { [kind |-> "json", value |-> r] : r \in Recommendations }

\* recommendations = run_llmfit_recommend(binary_path)
run_llmfit_recommend ==
  /\ pc = "recommend"
  /\ steps' = Append(steps, "run_llmfit_recommend")
  /\ \E out \in ToolOutcomes :
       CASE out.kind = "oserror" -> Exit("crash") /\ UNCHANGED recommendations
         [] out.kind = "nonzero" -> Exit("tool_failed") /\ UNCHANGED recommendations
         [] out.kind = "notjson" -> Exit("bad_json") /\ UNCHANGED recommendations
         [] OTHER -> /\ recommendations' = Some(out.value)
                     /\ pc' = "merge_read"
                     /\ UNCHANGED <<status, fatal>>
  /\ UNCHANGED <<env, config, caller, binary_path, ext, ext_file,
                 mergeLocals, patchVars>>

\* update_opencode_json(recommendations), called directly.
call_update_opencode_json ==
  /\ caller = "merge"
  /\ pc = "idle"
  /\ after = <<>>
  /\ \E r \in Recommendations : recommendations' = Some(r)
  /\ pc' = "merge_read"
  /\ UNCHANGED <<env, config, caller, status, fatal, binary_path, steps, ext,
                 ext_file, mergeLocals, patchVars>>

\* The same call once more.
repeat_update_opencode_json ==
  /\ caller = "merge"
  /\ pc = "idle"
  /\ Len(after) \in 1..(MaxCalls - 1)
  /\ pc' = "merge_read"
  /\ UNCHANGED <<env, config, caller, status, fatal, binary_path, recommendations,
                 steps, ext, ext_file, mergeLocals, patchVars>>

\* update_opencode_json up to the checks of the loaded document (lines 38-50).
update_opencode_json_read ==
  /\ pc = "merge_read"
  /\ steps' = Append(steps, "update_opencode_json")
  /\ before' = config
  /\ IF config.kind = "absent"
     THEN Exit("config_missing") /\ UNCHANGED <<cfg, reads>>
     ELSE /\ reads' = reads + 1
          /\ IF config.kind = "malformed"
             THEN Exit("crash") /\ UNCHANGED cfg
             ELSE IF ~ValidConfig(Load(config))
             THEN Exit("config_invalid") /\ UNCHANGED cfg
             ELSE /\ cfg' = Some(Load(config))
                  /\ pc' = "merge_write"
                  /\ UNCHANGED <<status, fatal>>
  /\ UNCHANGED <<env, config, caller, binary_path, recommendations, ret,
                 updated_count, writes, ext, ext_file, after, patchVars>>

\* Someone else writes opencode.json between the read and the write.
external_write ==
  /\ pc = "merge_write"
  /\ ext < MaxExt
  /\ \E f \in ConfigFiles \ {config} : config' = f /\ ext_file' = Some(f)
  /\ ext' = ext + 1
  /\ UNCHANGED <<env, caller, pc, status, fatal, binary_path, recommendations,
                 steps, mergeLocals, patchVars>>

\* What the write puts on disk, given the merged document and the file there.
\* Variants: a file that changed meanwhile is kept; an unchanged document is
\* not written.
written_onto_disk(doc, disk) ==
  IF disk.kind = "doc" /\ disk.doc # doc THEN disk ELSE Dump(doc)
written_if_changed(doc, disk) ==
  IF disk.kind = "doc" /\ disk.doc = doc THEN disk ELSE Dump(doc)
\* with open(opencode_path, "w") as f: json.dump(config, f, indent=2)
written(doc, disk) == Dump(doc)

\* update_opencode_json from line 52 to its return; main then ends.
update_opencode_json_write ==
  /\ pc = "merge_write"
  /\ LET m == Merge(cfg[1], recommendations[1]) IN
       IF m.crashed
       THEN /\ Exit("crash")
            /\ UNCHANGED <<config, cfg, ret, updated_count, writes, after>>
       ELSE /\ cfg' = Some(m.doc)
            /\ config' = written(m.doc, config)
            /\ writes' = writes + 1
            /\ updated_count' = m.updated_count
            /\ ret' = m.best_model
            /\ after' = Append(after, config')
            /\ fatal' = fatal
            /\ IF caller = "main"
               THEN pc' = "exited" /\ status' = Some(ExitSuccess)
               ELSE pc' = "idle" /\ status' = status
  /\ UNCHANGED <<env, caller, binary_path, recommendations, steps, before, reads,
                 ext, ext_file, patchVars>>

\* update_run_sh(best_model), called directly: main does not call it.
update_run_sh ==
  /\ caller = "patch"
  /\ pc = "idle"
  /\ patches < MaxCalls
  /\ \E best \in BestModels :
       /\ run_sh_arg' = best
       /\ run_sh' = PatchedScript(best, run_sh, platform)
  /\ run_sh_before' = run_sh
  /\ patches' = patches + 1
  /\ UNCHANGED <<env, config, caller, pc, status, fatal, binary_path,
                 recommendations, steps, ext, ext_file,
                 mergeLocals>>

Next ==
  \/ find_llmfit
  \/ run_llmfit_recommend
  \/ call_update_opencode_json
  \/ repeat_update_opencode_json
  \/ update_opencode_json_read
  \/ external_write
  \/ update_opencode_json_write
  \/ update_run_sh

Spec == Init /\ [][Next]_vars

----------------------------------------------------------------------------
\* Properties.

MainSteps == <<"find_llmfit", "run_llmfit_recommend", "update_opencode_json">>

\* The last update_opencode_json ran to its return, and opencode.json is as it
\* left it.
MergeDone ==
  /\ after # <<>>
  /\ \/ pc = "idle"
     \/ pc = "exited" /\ status = Some(ExitSuccess)

\* The last call of update_opencode_json is past its checks of the file.
PastChecks ==
  /\ steps # <<>>
  /\ steps[Len(steps)] = "update_opencode_json"
  /\ pc # "merge_read"

RecNames == {recommendations[1].models[i].name[1] :
               i \in {k \in 1..Len(recommendations[1].models) :
                        recommendations[1].models[k].name # None}}

\* The first recommendation of the list that names model_id.
FirstNamed(model_id) ==
  LET l == recommendations[1].models
  IN  l[CHOOSE i \in 1..Len(l) :
          /\ l[i].name = Some(model_id)
          /\ \A j \in 1..(i - 1) : l[j].name # Some(model_id)]

EntryOf(file, model_id) == file.doc.models[Lookup(file.doc.models, model_id)].val

\* C1: once update_opencode_json has completed, every key provider.vllm.models
\* had in the file it read is still a key, exactly once, with the same value,
\* also when a recommendation names that key with other settings.
C1_ExistingEntriesKept ==
  MergeDone =>
    \A i \in 1..Len(before.doc.models) :
      LET e == before.doc.models[i] IN
        /\ Cardinality({j \in 1..Len(config.doc.models) : config.doc.models[j].id = e.id}) = 1
        /\ EntryOf(config, e.id) = e.val

C1_Witness ==
  /\ MergeDone
  /\ CustomM \in {before.doc.models[i] : i \in 1..Len(before.doc.models)}
  /\ \E i \in 1..Len(recommendations[1].models) :
       /\ recommendations[1].models[i].name = Some(NameM)
       /\ recommendations[1].models[i].context_length = Some(32768)
  /\ updated_count > 0

\* C2: a second (and any further) run of update_opencode_json with the same
\* recommendations leaves the file exactly as the first run left it and
\* inserts nothing.
C2_Idempotent ==
  (pc = "idle" /\ Len(after) >= 2) =>
    /\ \A i \in 2..Len(after) : after[i] = after[1]
    /\ config = after[1]
    /\ updated_count = 0

C2_Witness ==
  /\ pc = "idle"
  /\ Len(after) = 2
  /\ Len(recommendations[1].models) = 2
  /\ recommendations[1].models[1].name = Some(NameM)
  /\ recommendations[1].models[2].name = Some(NameM)
  /\ recommendations[1].models[1].context_length # recommendations[1].models[2].context_length
  /\ Len(config.doc.models) = 1
  /\ EntryOf(config, NameM).contextWindow = 32768

\* C3: when opencode.json is absent, or has no "provider", or its provider has
\* no "vllm", update_opencode_json ends the process with status 1 and the file
\* is as it was: nothing was written.
C3_BadConfigIsFatal ==
  (/\ PastChecks
   /\ \/ before.kind = "absent"
      \/ before.kind = "doc" /\ ~before.doc.hasProvider
      \/ before.kind = "doc" /\ ~before.doc.hasVllm) =>
    /\ pc = "exited"
    /\ status = Some(1)
    /\ fatal \in {"config_missing", "config_invalid"}
    /\ writes = 0
    /\ config = before

C3_Witness ==
  /\ PastChecks
  /\ before.kind = "doc"
  /\ before.doc.hasProvider
  /\ ~before.doc.hasVllm
  /\ status = Some(1)

\* C4: every entry the merge inserted has contextWindow = the context_length
\* of the recommendation it came from (32768 when that has none) and
\* maxTokens = min(8192, contextWindow // 4), rounded down: 32768 gives 8192,
\* 16000 gives 4000, none gives 8192.
C4_InsertedEntryNumbers ==
  MergeDone =>
    \A model_id \in Keys(config.doc.models) \ Keys(before.doc.models) :
      LET entry == EntryOf(config, model_id)
          cl == FirstNamed(model_id).context_length
          cw == IF cl = None THEN 32768 ELSE cl[1]
          mt == entry.maxTokens
      IN  /\ entry.contextWindow = cw
          /\ \/ mt = 8192 /\ cw >= 4 * 8192
             \/ mt < 8192 /\ 4 * mt <= cw /\ cw < 4 * (mt + 1)
          /\ (cl = Some(32768) => entry.maxTokens = 8192)
          /\ (cl = Some(16000) => entry.maxTokens = 4000)
          /\ (cl = None => entry.maxTokens = 8192)

C4_Witness ==
  /\ MergeDone
  /\ \E model_id \in Keys(config.doc.models) \ Keys(before.doc.models) :
       /\ EntryOf(config, model_id).contextWindow = 7
       /\ EntryOf(config, model_id).maxTokens = 1
  /\ \E model_id \in Keys(config.doc.models) \ Keys(before.doc.models) :
       /\ FirstNamed(model_id).context_length = None
       /\ EntryOf(config, model_id).maxTokens = 8192

\* C5: a run of main ends with status 0 only after find_llmfit,
\* run_llmfit_recommend and update_opencode_json ran in that order and none
\* failed; a missing tool, a failing tool, output that is not JSON and a
\* missing or malformed config each end the process at once with status 1, and
\* after a locator or invoker failure opencode.json is neither read nor
\* written.
C5_DriverExitStatus ==
  caller = "main" =>
    /\ pc = "exited" <=> status # None
    /\ status = Some(0) =>
         /\ steps = MainSteps
         /\ fatal = "none"
         /\ binary_path # None
         /\ recommendations # None
         /\ reads = 1 /\ writes = 1
    /\ fatal # "none" <=> status = Some(1)
    /\ (steps # <<>> /\ binary_path = None) =>
         /\ fatal = "tool_not_found"
         /\ steps = SubSeq(MainSteps, 1, 1)
    /\ (Len(steps) >= 2 /\ recommendations = None) =>
         /\ fatal \in {"tool_failed", "bad_json", "crash"}
         /\ steps = SubSeq(MainSteps, 1, 2)
    /\ fatal \in {"tool_not_found", "tool_failed", "bad_json"} =>
         /\ reads = 0 /\ writes = 0
         /\ cfg = None
    /\ fatal \in {"config_missing", "config_invalid"} =>
         /\ steps = MainSteps
         /\ writes = 0

C5_Witness ==
  /\ caller = "main"
  /\ fatal = "bad_json"
  /\ status = Some(1)
  /\ steps = <<"find_llmfit", "run_llmfit_recommend">>
  /\ config.kind = "doc"
  /\ ValidConfig(config.doc)

\* C6: once find_llmfit has run, a binary of the platform's name in the
\* working directory makes it return the relative path, whatever the search
\* path holds; it returns the search path's answer only without such a file,
\* and ends the process with status 1 only when both are missing.
C6_CurrentDirectoryFirst ==
  (steps # <<>> /\ steps[1] = "find_llmfit") =>
    LET here == IF platform = "win32" THEN "llmfit.exe" \in cwd_files
                ELSE "llmfit" \in cwd_files
    IN  /\ here => binary_path = Some(IF platform = "win32" THEN ".\\llmfit.exe"
                                      ELSE "./llmfit")
        /\ (~here /\ which_result # None) => binary_path = which_result
        /\ (binary_path # None /\ binary_path = which_result) => ~here
        /\ fatal = "tool_not_found" <=> (~here /\ which_result = None)
        /\ fatal = "tool_not_found" => status = Some(1)

C6_Witness ==
  /\ steps # <<>>
  /\ platform = "win32"
  /\ "llmfit.exe" \in cwd_files
  /\ which_result # None
  /\ binary_path = Some(".\\llmfit.exe")

\* C7, as claimed: update_run_sh with a model identifier changes nothing of
\* run.sh but the first line holding "--model ", which becomes the line's
\* leading whitespace, then --model <identifier> \; every other line is as it
\* was; without the file or such a line the file is as it was; and the process
\* goes on.
C7_OnlyFirstFlagLineRewritten ==
  (patches > 0 /\ ~Falsy(run_sh_arg)) =>
    LET old == run_sh_before.lines
        hits == {i \in 1..Len(old) : HasFlag(old[i])}
    IN  /\ status = None
        /\ IF ~run_sh_before.exists \/ hits = {}
           THEN run_sh = run_sh_before
           ELSE /\ run_sh.exists
                /\ Len(run_sh.lines) = Len(old)
                /\ \A i \in 1..Len(old) :
                     IF i = Max({-k : k \in hits}) * (-1)
                     THEN run_sh.lines[i].text =
                            Indent(old[i]) \o <<"--model ">> \o run_sh_arg[1] \o <<" ", "\\">>
                     ELSE run_sh.lines[i] = old[i]

\* C8, as claimed: update_opencode_json returns the name of the first
\* recommendation of a list that is not empty, and None exactly for an empty
\* list.
C8_ReturnsFirstName ==
  MergeDone =>
    LET l == recommendations[1].models
    IN  /\ l # <<>> => ret = l[1].name
        /\ ret = None <=> l = <<>>

\* C9: a completed merge leaves as keys of provider.vllm.models the keys the
\* file had (none when it had no models) and the recommended names, nothing
\* else; what is outside provider.vllm.models is as it was; and each run wrote
\* the file once, also when it inserted nothing.
C9_AdditiveAndAlwaysWritten ==
  MergeDone =>
    /\ config.kind = "doc"
    /\ config.doc.hasModels
    /\ Keys(config.doc.models) =
         (IF before.doc.hasModels THEN Keys(before.doc.models) ELSE {}) \cup RecNames
    /\ Len(config.doc.models) = Cardinality(Keys(config.doc.models))
    /\ config.doc.theme = before.doc.theme
    /\ config.doc.baseURL = before.doc.baseURL
    /\ config.doc.hasProvider = before.doc.hasProvider
    /\ config.doc.hasVllm = before.doc.hasVllm
    /\ writes = Len(after)
    /\ config.fmt = "indent2"

C9_Witness ==
  /\ MergeDone
  /\ updated_count = 0
  /\ RecNames # {}
  /\ before.fmt = "other"
  /\ config.fmt = "indent2"
  /\ writes = 1
  /\ ext = 0

\* C10: when someone else wrote opencode.json after update_opencode_json read
\* it and before it wrote it, the file it leaves is made of what it read and
\* the recommendations alone, the other write is gone, and main still ends
\* with status 0.
C10_LastWriterWins ==
  (ext > 0 /\ pc # "merge_write" /\ fatal # "crash") =>
    /\ after # <<>>
    /\ config = Dump(Merge(Load(before), recommendations[1]).doc)
    /\ config.doc.theme = before.doc.theme
    /\ config.doc.baseURL = before.doc.baseURL
    /\ caller = "main" => (pc = "exited" /\ status = Some(0))

C10_Witness ==
  /\ MergeDone
  /\ ext > 0
  /\ caller = "main"
  /\ status = Some(0)
  /\ ext_file[1].kind = "doc"
  /\ ext_file[1].doc.theme # config.doc.theme
  /\ Keys(ext_file[1].doc.models) \ Keys(config.doc.models) # {}

====
